---- MODULE Spec2Model ----
(***************************************************************************)
(* A model of the Omniscience Oracle core: the odds parser                 *)
(* (src/parser/odds_parser.py), the indicator engine                       *)
(* (src/parser/ta/ta_engine.py), the recommendation engine                 *)
(* (src/engine/recommendations.py) and the series buffers of src/app.py.   *)
(*                                                                         *)
(* Conventions.                                                            *)
(*  - Python's Optional[T] is a sequence: None is <<>>, a value x is <<x>>.*)
(*  - A Python float is an exact rational [n |-> numerator, d |-> denom]   *)
(*    in lowest terms with d > 0; rounding of IEEE doubles is not          *)
(*    modelled.                                                            *)
(*  - A Python str is a TLA+ string, read character by character with      *)
(*    SubSeq.                                                              *)
(***************************************************************************)
EXTENDS Integers, Sequences, FiniteSets, TLC

VARIABLES
    \* two-way normalisation of a pair of odds tokens
    a_tok, b_tok, a_odds, b_odds, pair, odds_pc,
    \* one call of RecommendationEngine.generate_recommendation
    ta_indicators, forecasts, rec,
    \* one market's series and the indicator set computed from it
    series_data, ta,
    \* the block last mapped by a grammar and the record it gave
    quote, row, mapped,
    \* st.session_state['buffers'], the log of every append made to it, and
    \* the number of snapshots taken
    buffers, log, clock,
    \* the parser's configuration, the feed typed so far (its lines), and the
    \* last parse_feed call: its block_type, how it ended, the rows of the
    \* DataFrame it returned, the blocks it formed, and self.parsed_data
    cfg, text_feed, block_type, outcome, df, blocks, parsed_data

oddsVars == <<a_tok, b_tok, a_odds, b_odds, pair, odds_pc>>
recVars == <<ta_indicators, forecasts, rec>>
taVars == <<series_data, ta>>
rowVars == <<quote, row, mapped>>
bufVars == <<buffers, log, clock>>
feedVars == <<cfg, text_feed, block_type, outcome, df, blocks, parsed_data>>
vars == <<oddsVars, recVars, taVars, rowVars, bufVars, feedVars>>

-----------------------------------------------------------------------------
(* Optional values *)

None == <<>>
Some(x) == <<x>>
IsNone(o) == o = <<>>
Val(o) == o[1]

-----------------------------------------------------------------------------
(* Exact arithmetic standing in for Python floats *)

\* the element of a one-element set; {F(v) : v \in {x}} holds F at the value
\* of x, as a local assigned once does
Only(S) == CHOOSE r \in S : TRUE

Abs(x) == IF x < 0 THEN -x ELSE x
Sign(x) == IF x > 0 THEN 1 ELSE IF x < 0 THEN -1 ELSE 0
Min(x, y) == IF x <= y THEN x ELSE y
Max(x, y) == IF x >= y THEN x ELSE y

\* seq[-k:] for k > 0
Last(seq, k) == IF Len(seq) <= k THEN seq ELSE SubSeq(seq, Len(seq) - k + 1, Len(seq))

RECURSIVE Gcd(_, _)
Gcd(x, y) == IF y = 0 THEN x ELSE Gcd(y, x % y)

\* the rational n/d (d # 0) in lowest terms with a positive denominator
Rat(n, d) ==
    LET s == IF d < 0 THEN -1 ELSE 1
        g == Gcd(Abs(n), Abs(d))
    IN  [n |-> (s * n) \div g, d |-> (s * d) \div g]
Zero == [n |-> 0, d |-> 1]
One == [n |-> 1, d |-> 1]
\* sums over the least common denominator, which keeps the terms small
RAdd(x, y) ==
    LET g == Gcd(x.d, y.d)
    IN  Rat(x.n * (y.d \div g) + y.n * (x.d \div g), (x.d \div g) * y.d)
RSub(x, y) == RAdd(x, [n |-> -y.n, d |-> y.d])
RMul(x, y) == Rat(x.n * y.n, x.d * y.d)
RDiv(x, y) == Rat(x.n * y.d, x.d * y.n)
RLt(x, y) == x.n * y.d < y.n * x.d
RLe(x, y) == x.n * y.d <= y.n * x.d

-----------------------------------------------------------------------------
(* Python str operations used by the parser *)

Ch(s, i) == SubSeq(s, i, i)
Whitespace == {" ", "\t"}
Digits == {"0", "1", "2", "3", "4", "5", "6", "7", "8", "9"}
IsDigit(c) == c \in Digits
DigitValues ==
    [c \in Digits |-> CHOOSE v \in 0..9 : Ch("0123456789", v + 1) = c]
DigitVal(c) == DigitValues[c]
UpperCase == "ABCDEFGHIJKLMNOPQRSTUVWXYZ"
LowerCase == "abcdefghijklmnopqrstuvwxyz"
UpperLetters == {Ch(UpperCase, i) : i \in 1..26}
LowerOf ==
    [c \in UpperLetters |-> Ch(LowerCase, CHOOSE i \in 1..26 : Ch(UpperCase, i) = c)]

\* str.strip()
RECURSIVE lstrip(_)
lstrip(s) ==
    IF Len(s) > 0 /\ Ch(s, 1) \in Whitespace THEN lstrip(SubSeq(s, 2, Len(s))) ELSE s
RECURSIVE rstrip(_)
rstrip(s) ==
    IF Len(s) > 0 /\ Ch(s, Len(s)) \in Whitespace
    THEN rstrip(SubSeq(s, 1, Len(s) - 1)) ELSE s
strip(s) == rstrip(lstrip(s))

\* str.lower()
LowerChar(c) == IF c \in UpperLetters THEN LowerOf[c] ELSE c
RECURSIVE lower(_)
lower(s) ==
    IF Len(s) = 0 THEN s ELSE LowerChar(Ch(s, 1)) \o lower(SubSeq(s, 2, Len(s)))

\* str.replace(old, '') for a one-character old
RECURSIVE remove_char(_, _)
remove_char(s, c) ==
    IF Len(s) = 0 THEN s
    ELSE (IF Ch(s, 1) = c THEN "" ELSE Ch(s, 1)) \o remove_char(SubSeq(s, 2, Len(s)), c)

\* str.split(): the maximal runs of non-whitespace characters, in order
RECURSIVE SplitFrom(_, _, _, _)
SplitFrom(s, i, cur, acc) ==
    IF i > Len(s) THEN (IF cur = "" THEN acc ELSE Append(acc, cur))
    ELSE IF Ch(s, i) \in Whitespace
         THEN SplitFrom(s, i + 1, "", IF cur = "" THEN acc ELSE Append(acc, cur))
         ELSE SplitFrom(s, i + 1, cur \o Ch(s, i), acc)
split(s) == SplitFrom(s, 1, "", <<>>)

\* the index of the last character of the run of digits that starts at i
RECURSIVE DigitsEnd(_, _)
DigitsEnd(s, i) ==
    IF i < Len(s) /\ IsDigit(Ch(s, i + 1)) THEN DigitsEnd(s, i + 1) ELSE i

\* the value of a string of digits
RECURSIVE NatOf(_)
NatOf(s) ==
    IF Len(s) = 0 THEN 0
    ELSE 10 * NatOf(SubSeq(s, 1, Len(s) - 1)) + DigitVal(Ch(s, Len(s)))

RECURSIVE Pow10(_)
Pow10(k) == IF k = 0 THEN 1 ELSE 10 * Pow10(k - 1)

\* int(m) for a match m of -?\d+ or [+-]?\d+
int(m) ==
    IF Ch(m, 1) = "-" THEN -NatOf(SubSeq(m, 2, Len(m)))
    ELSE IF Ch(m, 1) = "+" THEN NatOf(SubSeq(m, 2, Len(m)))
    ELSE NatOf(m)

\* float(m) for a match m of -?\d+\.?\d*
float(m) ==
    LET neg == Ch(m, 1) = "-"
        body == IF neg THEN SubSeq(m, 2, Len(m)) ELSE m
        e == DigitsEnd(body, 1)
        frac == IF e < Len(body) THEN SubSeq(body, e + 2, Len(body)) ELSE ""
        mag == NatOf(SubSeq(body, 1, e)) * Pow10(Len(frac)) + NatOf(frac)
    IN  Rat(IF neg THEN -mag ELSE mag, Pow10(Len(frac)))

\* does -?\d+ match at position i
IntMatchesAt(s, i) ==
    \/ IsDigit(Ch(s, i))
    \/ Ch(s, i) = "-" /\ i < Len(s) /\ IsDigit(Ch(s, i + 1))

\* re.search(r"-?\d+", s): the leftmost match, None without one
search_int(s) ==
    IF \E i \in 1..Len(s) : IntMatchesAt(s, i)
    THEN LET i == CHOOSE j \in 1..Len(s) :
                    IntMatchesAt(s, j) /\ \A k \in 1..(j - 1) : ~IntMatchesAt(s, k)
             d == IF Ch(s, i) = "-" THEN i + 1 ELSE i
         IN  Some(SubSeq(s, i, DigitsEnd(s, d)))
    ELSE None

\* re.search(r"-?\d+\.?\d*", s): the leftmost match, None without one
search_point(s) ==
    IF \E i \in 1..Len(s) : IntMatchesAt(s, i)
    THEN LET i == CHOOSE j \in 1..Len(s) :
                    IntMatchesAt(s, j) /\ \A k \in 1..(j - 1) : ~IntMatchesAt(s, k)
             d == IF Ch(s, i) = "-" THEN i + 1 ELSE i
             e == DigitsEnd(s, d)
             f == IF e < Len(s) /\ Ch(s, e + 1) = "." THEN DigitsEnd(s, e + 1) ELSE e
         IN  Some(SubSeq(s, i, f))
    ELSE None

\* re.findall(r"[+-]?\d+", s): the non-overlapping matches, left to right
RECURSIVE FindAllFrom(_, _, _)
FindAllFrom(s, i, acc) ==
    IF i > Len(s) THEN acc
    ELSE IF IsDigit(Ch(s, i))
         THEN FindAllFrom(s, DigitsEnd(s, i) + 1, Append(acc, SubSeq(s, i, DigitsEnd(s, i))))
         ELSE IF Ch(s, i) \in {"+", "-"} /\ i < Len(s) /\ IsDigit(Ch(s, i + 1))
              THEN FindAllFrom(s, DigitsEnd(s, i + 1) + 1,
                               Append(acc, SubSeq(s, i, DigitsEnd(s, i + 1))))
              ELSE FindAllFrom(s, i + 1, acc)
\* faulty variant of findall_signed: the pattern lost its sign class, \d+
findall_unsigned(s) == FindAllFrom(remove_char(remove_char(s, "-"), "+"), 1, <<>>)
findall_signed(s) == FindAllFrom(s, 1, <<>>)

\* str(n) of an int, as an f-string renders it
RECURSIVE NatToStr(_)
NatToStr(n) ==
    IF n < 10 THEN Ch("0123456789", n + 1)
    ELSE NatToStr(n \div 10) \o Ch("0123456789", (n % 10) + 1)
IntToStr(n) == IF n < 0 THEN "-" \o NatToStr(-n) ELSE NatToStr(n)
\* f"{x}" of an Optional[int]
FormatOptInt(o) == IF IsNone(o) THEN "None" ELSE IntToStr(Val(o))

-----------------------------------------------------------------------------
(* OmniscienceDataParser: odds conversions *)

\* _sanitize_int_token(tok), tok a str
_sanitize_int_token(tok) ==
    LET s == strip(tok) IN
    IF s = "" THEN None
    ELSE IF lower(s) = "even" THEN Some(100)
    ELSE LET m == search_int(remove_char(s, "+"))
         IN  IF IsNone(m) THEN None ELSE Some(int(Val(m)))

\* _american_to_prob_raw(odds)
_american_to_prob_raw(odds) ==
    IF IsNone(odds) THEN None
    ELSE IF Val(odds) > 0 THEN Some(Rat(100, Val(odds) + 100))
    ELSE Some(Rat(-Val(odds), -Val(odds) + 100))

\* _normalize_two_way(a_odds, b_odds): the pair <<p_a, p_b>>
_normalize_two_way(a, b) ==
    IF IsNone(a) /\ IsNone(b) THEN <<None, None>>
    ELSE LET a_raw == IF ~IsNone(a) THEN Val(_american_to_prob_raw(a)) ELSE Zero
             b_raw == IF ~IsNone(b) THEN Val(_american_to_prob_raw(b)) ELSE Zero
             total == RAdd(a_raw, b_raw)
         IN  IF total = Zero
             THEN (IF IsNone(b) THEN <<Some(a_raw), None>> ELSE <<None, Some(b_raw)>>)
             ELSE <<Some(RDiv(a_raw, total)), Some(RDiv(b_raw, total))>>

\* _calc_opposite_vig(vig)
_calc_opposite_vig(vig) == IF IsNone(vig) THEN None ELSE Some(-220 - Val(vig))

\* _extract_point_value(token), token a str
_extract_point_value(token) ==
    LET m == search_point(token)
    IN  IF IsNone(m) THEN None ELSE Some(float(Val(m)))

-----------------------------------------------------------------------------
(* Two-way normalisation of odds tokens (specification SpecOdds) *)

\* odds tokens as they appear in a feed: signed integers, "even", zero,
\* blank and non-numeric tokens
OddsTokens ==
    {"-110", "+130", "-150", "even", "EVEN", "0", "+100", "-220", "", "pk", " 250 "}

OddsIdle ==
    /\ a_tok = ""
    /\ b_tok = ""
    /\ a_odds = None
    /\ b_odds = None
    /\ pair = <<None, None>>
    /\ odds_pc = "idle"

OddsInit ==
    /\ a_tok \in OddsTokens
    /\ b_tok \in OddsTokens
    /\ a_odds = None
    /\ b_odds = None
    /\ pair = <<None, None>>
    /\ odds_pc = "tokens"

\* C3: whenever both sides' odds are present (any integers, 0 and the
\* "even" value 100 included), _normalize_two_way returns two non-null
\* probabilities whose sum is 1.
C3_BothPresentSumToOne ==
    (odds_pc \in {"pair", "vig"} /\ ~IsNone(a_odds) /\ ~IsNone(b_odds))
        => /\ ~IsNone(pair[1])
           /\ ~IsNone(pair[2])
           /\ RAdd(Val(pair[1]), Val(pair[2])) = One

\* C4: whenever exactly one side's odds is missing, _normalize_two_way
\* returns the raw probability of the present side (american_to_probability
\* of its odds) paired with null for the missing side.
C4_OneSidedIsRawWithNull ==
    (odds_pc = "pair" /\ IsNone(a_odds) # IsNone(b_odds))
        => pair = <<_american_to_prob_raw(a_odds), _american_to_prob_raw(b_odds)>>

\* both sides read from tokens, as for the moneyline pair (_parse_4line)
NormalizePair ==
    /\ odds_pc = "tokens"
    /\ a_odds' = _sanitize_int_token(a_tok)
    /\ b_odds' = _sanitize_int_token(b_tok)
    /\ pair' = _normalize_two_way(a_odds', b_odds')
    /\ odds_pc' = "pair"
    /\ UNCHANGED <<a_tok, b_tok, recVars, taVars, rowVars, bufVars, feedVars>>

\* one side read from a token, the other its opposite vig (spread, total)
NormalizeVig ==
    /\ odds_pc = "tokens"
    /\ a_odds' = _sanitize_int_token(a_tok)
    /\ b_odds' = _calc_opposite_vig(a_odds')
    /\ pair' = _normalize_two_way(a_odds', b_odds')
    /\ odds_pc' = "vig"
    /\ UNCHANGED <<a_tok, b_tok, recVars, taVars, rowVars, bufVars, feedVars>>

OddsNext == NormalizePair \/ NormalizeVig

-----------------------------------------------------------------------------
(* OmniscienceDataParser: the two grammars.  A block is a sequence of      *)
(* lines; a record is a TLA+ record of the dict's fields ('parsed_at', a   *)
(* wall-clock time, is left out).  None is the return value None.          *)

\* _parse_5line(block)
_parse_5line(block) ==
    IF Len(block) < 5 THEN None
    ELSE
    LET t1 == split(block[1]) IN
    IF Len(t1) < 4 THEN None
    ELSE
    LET date_token == t1[1]
        time_token == t1[2]
        favorite_team == t1[3]
        spread_points == _extract_point_value(t1[4])
        spread_vig == _sanitize_int_token(strip(block[2]))
        spread_vig_opp == _calc_opposite_vig(spread_vig)
        spread_ips == _normalize_two_way(spread_vig, spread_vig_opp)
        total_token == strip(block[3])
        sided == Len(total_token) >= 2 /\ lower(Ch(total_token, 1)) \in {"o", "u"}
        total_side == IF sided
                      THEN Some(IF lower(Ch(total_token, 1)) = "o" THEN "over" ELSE "under")
                      ELSE None
        total_points == IF sided
                        THEN _extract_point_value(SubSeq(total_token, 2, Len(total_token)))
                        ELSE _extract_point_value(total_token)
        total_vig == _sanitize_int_token(block[4])
        total_vig_opp == _calc_opposite_vig(total_vig)
        total_ips == _normalize_two_way(total_vig, total_vig_opp)
        ml_matches == findall_signed(block[5])
        away_ml == IF Len(ml_matches) > 0 THEN _sanitize_int_token(ml_matches[1]) ELSE None
        home_ml == IF Len(ml_matches) > 1 THEN _sanitize_int_token(ml_matches[2]) ELSE None
        ml_ips == _normalize_two_way(away_ml, home_ml)
    IN  Some([game_id |-> date_token \o "|" \o time_token \o "|" \o favorite_team,
              date |-> date_token,
              time |-> time_token,
              favorite_team |-> favorite_team,
              spread_points |-> spread_points,
              favorite_ip_raw |-> spread_ips[1],
              dog_ip_raw |-> spread_ips[2],
              spread_vig |-> spread_vig,
              spread_vig_opp |-> spread_vig_opp,
              total_points |-> total_points,
              total_side |-> total_side,
              over_ip_raw |-> total_ips[1],
              under_ip_raw |-> total_ips[2],
              total_vig |-> total_vig,
              total_vig_opp |-> total_vig_opp,
              away_ml |-> away_ml,
              home_ml |-> home_ml,
              away_ml_ip_raw |-> ml_ips[1],
              home_ml_ip_raw |-> ml_ips[2]])

\* _parse_4line(block)
_parse_4line(block) ==
    IF Len(block) < 4 THEN None
    ELSE
    LET t1 == split(block[1]) IN
    IF Len(t1) < 5 THEN None
    ELSE
    LET date_token == t1[1]
        time_token == t1[2]
        away_ml == _sanitize_int_token(t1[3])
        home_ml == _sanitize_int_token(t1[4])
        ml_ips == _normalize_two_way(away_ml, home_ml)
        total_points == _extract_point_value(t1[5])
        total_vig == _sanitize_int_token(block[2])
        total_vig_opp == _calc_opposite_vig(total_vig)
        total_ips == _normalize_two_way(total_vig, total_vig_opp)
        rtokens == split(block[3])
        runline_points == IF Len(rtokens) >= 2 THEN _extract_point_value(rtokens[2]) ELSE None
        runline_vig == _sanitize_int_token(block[4])
        runline_vig_opp == _calc_opposite_vig(runline_vig)
    IN  Some([game_id |-> date_token \o "|" \o time_token \o "|" \o FormatOptInt(away_ml)
                              \o "|" \o FormatOptInt(home_ml),
              date |-> date_token,
              time |-> time_token,
              away_ml |-> away_ml,
              home_ml |-> home_ml,
              away_ml_ip_raw |-> ml_ips[1],
              home_ml_ip_raw |-> ml_ips[2],
              total_points |-> total_points,
              total_vig |-> total_vig,
              total_vig_opp |-> total_vig_opp,
              over_ip_raw |-> total_ips[1],
              under_ip_raw |-> total_ips[2],
              runline_points |-> runline_points,
              runline_vig |-> runline_vig,
              runline_vig_opp |-> runline_vig_opp])

\* r.get(field) of a record
Get(r, field) == IF field \in DOMAIN r THEN r[field] ELSE None

-----------------------------------------------------------------------------
(* Blocks of a feed.  A quote names the tokens a block is written from,    *)
(* each with the value it stands for; Block5 and Block4 lay the tokens out *)
(* as the lines of the 5-line and the 4-line grammar.                      *)

Games ==
    {[date |-> "01/01", time |-> "7:00pm", team |-> "TeamA"],
     [date |-> "12/25", time |-> "1:05PM", team |-> "Jets"]}
\* a first line without its team token
TeamlessGame == [date |-> "01/01", time |-> "7:00pm", team |-> ""]
PointTokens ==
    {[txt |-> "-3.5", val |-> Some(Rat(-7, 2))],
     [txt |-> "+7", val |-> Some(Rat(7, 1))],
     [txt |-> "-10.25", val |-> Some(Rat(-41, 4))],
     [txt |-> "pk", val |-> None]}
VigTokens == {"-110", "even", "+105"}
TotalTokens ==
    {[txt |-> "o45.5", side |-> Some("over"), val |-> Some(Rat(91, 2))],
     [txt |-> "u8", side |-> Some("under"), val |-> Some(Rat(8, 1))],
     [txt |-> "O210.5", side |-> Some("over"), val |-> Some(Rat(421, 2))],
     [txt |-> "45.5", side |-> None, val |-> Some(Rat(91, 2))]}
Moneylines ==
    {[away_txt |-> "-150", home_txt |-> "+130", away |-> -150, home |-> 130],
     [away_txt |-> "+120", home_txt |-> "-140", away |-> 120, home |-> -140],
     [away_txt |-> "-110", home_txt |-> "-110", away |-> -110, home |-> -110],
     [away_txt |-> "-1200", home_txt |-> "+750", away |-> -1200, home |-> 750]}

Quotes5 ==
    [grammar : {"5line"}, game : Games \cup {TeamlessGame}, spread : PointTokens,
     spread_vig : VigTokens, total : TotalTokens, total_vig : {"-110", "-105"},
     ml : Moneylines]
Quotes4 ==
    [grammar : {"4line"}, game : Games, ml : Moneylines,
     total : {t \in TotalTokens : t.side = None}, total_vig : {"-110", "-105"},
     runline : {pt \in PointTokens : pt.txt \in {"-3.5", "+7"}}, runline_vig : {"+120"}]

Block5(q) ==
    <<q.game.date \o " " \o q.game.time \o " " \o q.game.team \o " " \o q.spread.txt,
      q.spread_vig,
      q.total.txt,
      q.total_vig,
      q.ml.away_txt \o " " \o q.ml.home_txt>>
Block4(q) ==
    <<q.game.date \o " " \o q.game.time \o " " \o q.ml.away_txt \o " " \o q.ml.home_txt
          \o " " \o q.total.txt,
      q.total_vig,
      q.game.team \o " " \o q.runline.txt,
      q.runline_vig>>

NoQuote == [grammar |-> "none"]

RowIdle ==
    /\ quote = NoQuote
    /\ row = None
    /\ mapped = FALSE

-----------------------------------------------------------------------------
(* One block mapped by its grammar (SpecGrammar) *)

GrammarInit ==
    /\ quote \in Quotes5 \cup Quotes4
    /\ row = None
    /\ mapped = FALSE

Map5Line ==
    /\ ~mapped
    /\ quote.grammar = "5line"
    /\ row' = _parse_5line(Block5(quote))
    /\ mapped' = TRUE
    /\ UNCHANGED <<quote, oddsVars, recVars, taVars, bufVars, feedVars>>

Map4Line ==
    /\ ~mapped
    /\ quote.grammar = "4line"
    /\ row' = _parse_4line(Block4(quote))
    /\ mapped' = TRUE
    /\ UNCHANGED <<quote, oddsVars, recVars, taVars, bufVars, feedVars>>

GrammarNext == Map5Line \/ Map4Line

\* a 5-line block with all four tokens on its first line
WellFormed5 == quote.grammar = "5line" /\ quote.game.team # ""

\* C9: the 5-line grammar maps a well-formed block positionally: line 1 gives
\* date, time, favorite_team and spread_points, line 3 total_side and
\* total_points, line 5 away_ml then home_ml, and the two moneyline implied
\* probabilities sum to 1; the block "01/01 7:00pm TeamA -3.5", "-110",
\* "o45.5", "-110", "-150 +130" gives -3.5, TeamA, 45.5, over, -150, 130.
C9_FiveLinePositional ==
    /\ (mapped /\ WellFormed5) =>
        /\ ~IsNone(row)
        /\ Val(row).date = quote.game.date
        /\ Val(row).time = quote.game.time
        /\ Val(row).favorite_team = quote.game.team
        /\ Val(row).spread_points = quote.spread.val
        /\ Val(row).total_side = quote.total.side
        /\ Val(row).total_points = quote.total.val
        /\ Val(row).away_ml = Some(quote.ml.away)
        /\ Val(row).home_ml = Some(quote.ml.home)
        /\ ~IsNone(Val(row).away_ml_ip_raw)
        /\ ~IsNone(Val(row).home_ml_ip_raw)
        /\ RAdd(Val(Val(row).away_ml_ip_raw), Val(Val(row).home_ml_ip_raw)) = One
    /\ (mapped /\ quote.grammar = "5line"
            /\ Block5(quote) = <<"01/01 7:00pm TeamA -3.5", "-110", "o45.5", "-110",
                                 "-150 +130">>) =>
        /\ Val(row).spread_points = Some(Rat(-35, 10))
        /\ Val(row).favorite_team = "TeamA"
        /\ Val(row).total_points = Some(Rat(455, 10))
        /\ Val(row).total_side = Some("over")
        /\ Val(row).away_ml = Some(-150)
        /\ Val(row).home_ml = Some(130)
        /\ Val(row).away_ml_ip_raw = Some(Rat(69, 119))

\* C9 witness: the block of the example, mapped
C9_Witness ==
    /\ mapped
    /\ ~IsNone(row)
    /\ quote.grammar = "5line"
    /\ Block5(quote) = <<"01/01 7:00pm TeamA -3.5", "-110", "o45.5", "-110", "-150 +130">>

-----------------------------------------------------------------------------
(* OmniscienceDataParser.parse_feed.  text_feed is the sequence of lines   *)
(* that text_feed.splitlines() gives.  A configuration is a record of the  *)
(* attributes the Config class defines; reading an attribute it does not   *)
(* define raises AttributeError.                                           *)

DefaultConfig ==
    [ignore_header_rows |-> TRUE, parse_5_line_blocks |-> TRUE, parse_4_line_blocks |-> TRUE]

\* line 78: the stripped lines that are not blank
NotBlank(ln) == ln # ""
StrippedLines(raw) == SelectSeq([i \in 1..Len(raw) |-> strip(raw[i])], NotBlank)

\* line 82: start_idx
StartIndex(c, lines) == IF c.ignore_header_rows /\ Len(lines) > 0 THEN 1 ELSE 0

\* faulty variant of Expect: 'auto' asks for the first enabled size without
\* looking at len(cur)
Expect_AutoFirstEnabled(c, bt, cur) ==
    IF bt = "5line" THEN 5
    ELSE IF bt = "4line" THEN 4
    ELSE IF c.parse_5_line_blocks THEN 5
    ELSE IF c.parse_4_line_blocks THEN 4
    ELSE 0

\* faulty variant of Expect: the sizes of the two explicit modes are swapped
Expect_Swapped(c, bt, cur) ==
    IF bt = "5line" THEN 4
    ELSE IF bt = "4line" THEN 5
    ELSE IF Len(cur) >= 5 /\ c.parse_5_line_blocks THEN 5
    ELSE IF Len(cur) >= 4 /\ c.parse_4_line_blocks THEN 4
    ELSE 0

\* lines 90-95: expect, 0 for None
Expect(c, bt, cur) ==
    IF bt = "5line" THEN 5
    ELSE IF bt = "4line" THEN 4
    ELSE IF Len(cur) >= 5 /\ c.parse_5_line_blocks THEN 5
    ELSE IF Len(cur) >= 4 /\ c.parse_4_line_blocks THEN 4
    ELSE 0

\* lines 86-98: the grouping loop from lines[i] (0-based) on
RECURSIVE GroupFrom(_, _, _, _, _, _)
GroupFrom(c, bt, lines, i, cur, acc) ==
    IF i >= Len(lines) THEN [cur |-> cur, blocks |-> acc]
    ELSE LET cur1 == Append(cur, lines[i + 1])
             expect == Expect(c, bt, cur1)
         IN  IF expect # 0 /\ Len(cur1) = expect
             THEN GroupFrom(c, bt, lines, i + 1, <<>>, Append(acc, cur1))
             ELSE GroupFrom(c, bt, lines, i + 1, cur1, acc)

\* lines 83-100: blocks
GroupBlocks(c, bt, lines) ==
    LET g == GroupFrom(c, bt, lines, StartIndex(c, lines), <<>>, <<>>)
    IN  IF Len(g.cur) \in {4, 5} THEN Append(g.blocks, g.cur) ELSE g.blocks

\* lines 102-112: the mapping loop from blocks[i] on; parsed holds the rows so
\* far, and the loop ends by falling through or by an AttributeError
RECURSIVE MapFrom(_, _, _, _)
MapFrom(c, bs, i, parsed) ==
    IF i > Len(bs) THEN [outcome |-> "returned", parsed |-> parsed]
    ELSE LET b == bs[i]
             keep(p) == MapFrom(c, bs, i + 1, IF IsNone(p) THEN parsed ELSE Append(parsed, Val(p)))
         IN  IF Len(b) = 5 /\ c.parse_5_line_blocks THEN keep(_parse_5line(b))
             ELSE IF Len(b) = 4
                  THEN (IF "parse_4line_blocks" \notin DOMAIN c
                        THEN [outcome |-> "AttributeError", parsed |-> parsed]
                        ELSE IF c.parse_4line_blocks THEN keep(_parse_4line(b))
                        ELSE keep(None))
                  ELSE keep(None)

\* parse_feed(text_feed, block_type): how the call ends, the rows of the
\* DataFrame returned, the blocks formed, the rows appended to parsed_data
parse_feed(c, raw, bt) ==
    LET Mapped(bs, m) ==
            [outcome |-> m.outcome,
             df |-> IF m.outcome = "returned" THEN m.parsed ELSE <<>>,
             blocks |-> bs,
             appended |-> m.parsed]
        Map(bs) == Only({Mapped(bs, m) : m \in {MapFrom(c, bs, 1, <<>>)}})
        Group(lines) ==
            IF Len(lines) = 0
            THEN [outcome |-> "returned", df |-> <<>>, blocks |-> <<>>, appended |-> <<>>]
            ELSE Only({Map(bs) : bs \in {GroupBlocks(c, bt, lines)}})
    IN  Only({Group(lines) : lines \in {StrippedLines(raw)}})

-----------------------------------------------------------------------------
(* A feed typed line by line and parsed once (SpecFeed) *)

MaxLines == 10
MaxOddLines == 1

\* a line of four tokens, which either grammar position accepts
PlainLine == "01/01 7:00pm TeamA -3.5"
\* a line of one token and a blank line
OddLines == {"-110", "   "}

Configs ==
    {DefaultConfig,
     [DefaultConfig EXCEPT !.ignore_header_rows = FALSE],
     [DefaultConfig EXCEPT !.parse_5_line_blocks = FALSE],
     [DefaultConfig EXCEPT !.parse_4_line_blocks = FALSE]}
BlockTypes == {"auto", "5line", "4line"}

NumOdd(raw) == Cardinality({i \in 1..Len(raw) : raw[i] \in OddLines})

FeedIdle ==
    /\ cfg = DefaultConfig
    /\ text_feed = <<>>
    /\ block_type = "none"
    /\ outcome = "none"
    /\ df = <<>>
    /\ blocks = <<>>
    /\ parsed_data = <<>>

FeedInit ==
    /\ cfg \in Configs
    /\ text_feed = <<>>
    /\ block_type = "none"
    /\ outcome = "none"
    /\ df = <<>>
    /\ blocks = <<>>
    /\ parsed_data = <<>>

\* one more line of the feed
AddLine(l) ==
    /\ outcome = "none"
    /\ Len(text_feed) < MaxLines
    /\ NumOdd(Append(text_feed, l)) <= MaxOddLines
    /\ text_feed' = Append(text_feed, l)
    /\ UNCHANGED <<cfg, block_type, outcome, df, blocks, parsed_data>>
    /\ UNCHANGED <<oddsVars, recVars, taVars, rowVars, bufVars>>

\* parse_feed(text_feed, bt) on a fresh parser
ParseFeed(bt) ==
    /\ outcome = "none"
    /\ \E res \in {parse_feed(cfg, text_feed, bt)} :
           /\ outcome' = res.outcome
           /\ df' = res.df
           /\ blocks' = res.blocks
           /\ parsed_data' = parsed_data \o res.appended
    /\ block_type' = bt
    /\ UNCHANGED <<cfg, text_feed>>
    /\ UNCHANGED <<oddsVars, recVars, taVars, rowVars, bufVars>>

FeedNext ==
    \/ \E l \in {PlainLine} \cup OddLines : AddLine(l)
    \/ \E bt \in BlockTypes : ParseFeed(bt)

\* the lines parse_feed groups: stripped, not blank, the header dropped
GroupedLines ==
    LET lines == StrippedLines(text_feed)
    IN  IF cfg.ignore_header_rows /\ Len(lines) > 0 THEN Tail(lines) ELSE lines

\* the rows the 5-line grammar gives for the first k full groups of five
RECURSIVE RowsOfFives(_, _)
RowsOfFives(lines, k) ==
    IF k = 0 THEN <<>>
    ELSE RowsOfFives(lines, k - 1)
         \o (LET p == _parse_5line(SubSeq(lines, 5 * k - 4, 5 * k))
             IN  IF IsNone(p) THEN <<>> ELSE <<Val(p)>>)

\* C8 as stated: with both grammars enabled, six lines left after the blank
\* lines and the header are removed match neither grammar and contribute zero
\* rows to the result, whatever the block_type.
C8_SixLinesGiveNoRows ==
    (cfg = DefaultConfig /\ outcome = "returned" /\ Len(GroupedLines) = 6) => df = <<>>

\* C8 amended: lines are grouped greedily, so what is dropped is the lines
\* left over after the last full group.  In '5line' mode, when the grouped
\* lines are full groups of five followed by 0 to 3 more lines, parse_feed
\* returns, every block it formed has five lines, and the rows are those the
\* 5-line grammar gives for the full groups (none with that grammar disabled):
\* six lines give the row of lines 1-5, and only the sixth line is dropped.
C8_LeftoverLinesDropped ==
    (outcome # "none" /\ block_type = "5line" /\ Len(GroupedLines) % 5 \in 0..3) =>
        /\ outcome = "returned"
        /\ Len(blocks) = Len(GroupedLines) \div 5
        /\ \A i \in 1..Len(blocks) : Len(blocks[i]) = 5
        /\ df = IF cfg.parse_5_line_blocks
                THEN RowsOfFives(GroupedLines, Len(GroupedLines) \div 5)
                ELSE <<>>
        /\ (cfg = DefaultConfig /\ Len(GroupedLines) = 6
                /\ Len(split(GroupedLines[1])) >= 4) => Len(df) = 1

\* C8 witness: '5line' mode returned one row for six grouped lines
C8_Witness ==
    /\ outcome = "returned"
    /\ block_type = "5line"
    /\ cfg = DefaultConfig
    /\ Len(GroupedLines) = 6
    /\ Len(df) = 1

\* C1: with the default configuration parse_feed never raises, whatever the
\* text and the block_type: it returns the rows that parsed.
C1_ParseFeedNeverRaises ==
    (cfg = DefaultConfig /\ outcome # "none") => outcome = "returned"

\* the rows the 4-line grammar gives for the first k full groups of four
RECURSIVE RowsOfFours(_, _)
RowsOfFours(lines, k) ==
    IF k = 0 THEN <<>>
    ELSE RowsOfFours(lines, k - 1)
         \o (LET p == _parse_4line(SubSeq(lines, 4 * k - 3, 4 * k))
             IN  IF IsNone(p) THEN <<>> ELSE <<Val(p)>>)

\* C11: with an explicit block_type parse_feed forms blocks of exactly the
\* expected size (5 in '5line' mode, 4 in '4line' mode), one per full group
\* of the grouped lines, maps each with the matching grammar, and never
\* parses the lines left over after the last full group.
C11_ExplicitModeBlocks ==
    (outcome # "none" /\ block_type \in {"5line", "4line"}) =>
        LET size == IF block_type = "5line" THEN 5 ELSE 4
            full == Len(GroupedLines) \div size
        IN  /\ outcome = "returned"
            /\ Len(blocks) = full
            /\ \A i \in 1..Len(blocks) :
                   blocks[i] = SubSeq(GroupedLines, size * (i - 1) + 1, size * i)
            /\ df = IF size = 5
                    THEN (IF cfg.parse_5_line_blocks
                          THEN RowsOfFives(GroupedLines, full) ELSE <<>>)
                    ELSE (IF cfg.parse_4_line_blocks
                          THEN RowsOfFours(GroupedLines, full) ELSE <<>>)

\* C12: in 'auto' mode with both grammars enabled every block the grouping
\* forms has exactly four lines (the k-th block is the k-th group of four of
\* the grouped lines) and no 5-line block is formed, whatever the feed.
C12_AutoBlocksAreFours ==
    (outcome # "none" /\ block_type = "auto"
        /\ cfg.parse_5_line_blocks /\ cfg.parse_4_line_blocks) =>
        /\ Len(blocks) = Len(GroupedLines) \div 4
        /\ \A i \in 1..Len(blocks) :
               /\ Len(blocks[i]) = 4
               /\ blocks[i] = SubSeq(GroupedLines, 4 * i - 3, 4 * i)

\* C12 witness: 'auto' mode with both grammars enabled grouped a feed of more
\* than five lines into two blocks
C12_Witness ==
    /\ outcome # "none"
    /\ block_type = "auto"
    /\ cfg = DefaultConfig
    /\ Len(GroupedLines) > 5
    /\ Len(blocks) = 2

-----------------------------------------------------------------------------
(* The series buffers of src/app.py (st.session_state['buffers']): a map   *)
(* from "<game_id>|<market>" to the list of points pushed under that key.  *)
(* A point's 'ts' is the logical time of the snapshot it came from.        *)

\* config.default_history_len, 300 in src/config/settings.py:15, scaled down to
\* the length of the momentum window (momentum_period + 1 points)
default_history_len == 4
MaxSnapshots == 6

Markets == <<"away_ml", "home_ml", "spread", "total">>

BufferKey(gid, market) == gid \o "|" \o market

\* faulty variant of push: the cap keeps the oldest points
push_KeepOldest(bufs, gid, market, ip_val, point_val, now) ==
    IF IsNone(ip_val) THEN bufs
    ELSE LET key == BufferKey(gid, market)
             old == IF key \in DOMAIN bufs THEN bufs[key] ELSE <<>>
             buf == Append(old, [ip |-> ip_val, point |-> point_val, ts |-> now])
         IN  [k \in DOMAIN bufs \cup {key} |->
                 IF k = key
                 THEN (IF Len(buf) > default_history_len
                       THEN SubSeq(buf, 1, default_history_len) ELSE buf)
                 ELSE bufs[k]]

\* push(market, ip_val, point_val) for the row of game gid, on the buffers bufs
push(bufs, gid, market, ip_val, point_val, now) ==
    IF IsNone(ip_val) THEN bufs
    ELSE LET key == BufferKey(gid, market)
             old == IF key \in DOMAIN bufs THEN bufs[key] ELSE <<>>
             buf == Append(old, [ip |-> ip_val, point |-> point_val, ts |-> now])
         IN  [k \in DOMAIN bufs \cup {key} |->
                 IF k = key
                 THEN (IF Len(buf) > default_history_len
                       THEN Last(buf, default_history_len) ELSE buf)
                 ELSE bufs[k]]

\* the ip and point arguments of the four push calls, by market
PushArgs(r) ==
    [away_ml |-> [ip |-> Get(r, "away_ml_ip_raw"), point |-> None],
     home_ml |-> [ip |-> Get(r, "home_ml_ip_raw"), point |-> None],
     spread |-> [ip |-> Get(r, "favorite_ip_raw"), point |-> Get(r, "spread_points")],
     total |-> [ip |-> Get(r, "over_ip_raw"), point |-> Get(r, "total_points")]]

\* the four push calls for one row, in order
RECURSIVE PushMarkets(_, _, _, _)
PushMarkets(bufs, r, now, i) ==
    IF i = 0 THEN bufs
    ELSE push(PushMarkets(bufs, r, now, i - 1), r.game_id, Markets[i],
              PushArgs(r)[Markets[i]].ip, PushArgs(r)[Markets[i]].point, now)
push_row(bufs, r, now) == PushMarkets(bufs, r, now, Len(Markets))

\* what the log gains from one row: one entry per market whose ip is present,
\* with the key it went to, the point, and the game and grammar of the block
RECURSIVE LogMarkets(_, _, _, _)
LogMarkets(r, q, now, i) ==
    IF i = 0 THEN <<>>
    ELSE LogMarkets(r, q, now, i - 1)
         \o (IF IsNone(PushArgs(r)[Markets[i]].ip) THEN <<>>
             ELSE <<[key |-> BufferKey(r.game_id, Markets[i]),
                     market |-> Markets[i],
                     game |-> q.game,
                     grammar |-> q.grammar,
                     pt |-> [ip |-> PushArgs(r)[Markets[i]].ip,
                             point |-> PushArgs(r)[Markets[i]].point,
                             ts |-> now]]>>)

\* the blocks of the snapshots: a game quoted twice in each grammar, the odds
\* moved in between, and a second game
FirstQuote5 ==
    [grammar |-> "5line",
     game |-> [date |-> "01/01", time |-> "7:00pm", team |-> "TeamA"],
     spread |-> [txt |-> "-3.5", val |-> Some(Rat(-7, 2))], spread_vig |-> "-110",
     total |-> [txt |-> "o45.5", side |-> Some("over"), val |-> Some(Rat(91, 2))],
     total_vig |-> "-110",
     ml |-> [away_txt |-> "-150", home_txt |-> "+130", away |-> -150, home |-> 130]]
MovedQuote5 ==
    [FirstQuote5 EXCEPT !.spread_vig = "+105", !.total_vig = "-105",
        !.ml = [away_txt |-> "+120", home_txt |-> "-140", away |-> 120, home |-> -140]]
OtherQuote5 ==
    [FirstQuote5 EXCEPT !.game = [date |-> "12/25", time |-> "1:05PM", team |-> "Jets"],
        !.spread = [txt |-> "pk", val |-> None]]
FirstQuote4 ==
    [grammar |-> "4line",
     game |-> [date |-> "01/01", time |-> "7:00pm", team |-> "TeamA"],
     ml |-> [away_txt |-> "-150", home_txt |-> "+130", away |-> -150, home |-> 130],
     total |-> [txt |-> "45.5", side |-> None, val |-> Some(Rat(91, 2))],
     total_vig |-> "-110",
     runline |-> [txt |-> "-3.5", val |-> Some(Rat(-7, 2))], runline_vig |-> "+120"]
MovedQuote4 ==
    [FirstQuote4 EXCEPT
        !.ml = [away_txt |-> "+120", home_txt |-> "-140", away |-> 120, home |-> -140]]
SnapshotQuotes == {FirstQuote5, MovedQuote5, OtherQuote5, FirstQuote4, MovedQuote4}

BufIdle ==
    /\ buffers = <<>>
    /\ log = <<>>
    /\ clock = 0

SeriesInit == BufIdle /\ RowIdle

\* a row and the buffers after it is pushed (app.py lines 53-68, one row)
Pushed(r) ==
    /\ row' = r
    /\ mapped' = TRUE
    /\ clock' = clock + 1
    /\ buffers' = IF IsNone(r) THEN buffers ELSE push_row(buffers, Val(r), clock')
    /\ log' = IF IsNone(r) THEN log ELSE log \o LogMarkets(Val(r), quote', clock', Len(Markets))
    /\ UNCHANGED <<oddsVars, recVars, taVars, feedVars>>

\* a 5-line block is mapped and its row pushed
Snapshot5(q) ==
    /\ clock < MaxSnapshots
    /\ q.grammar = "5line"
    /\ quote' = q
    /\ Pushed(_parse_5line(Block5(q)))

\* a 4-line block is mapped by _parse_4line and its row pushed
Snapshot4(q) ==
    /\ clock < MaxSnapshots
    /\ q.grammar = "4line"
    /\ quote' = q
    /\ Pushed(_parse_4line(Block4(q)))

\* the 'Clear buffers' button (app.py lines 29-32)
ClearBuffers ==
    /\ buffers # <<>>
    /\ buffers' = <<>>
    /\ log' = <<>>
    /\ UNCHANGED <<clock, rowVars, oddsVars, recVars, taVars, feedVars>>

SeriesNext ==
    \/ \E q \in SnapshotQuotes : Snapshot5(q)
    \/ \E q \in SnapshotQuotes : Snapshot4(q)
    \/ ClearBuffers

\* the points appended under key k, in the order of the appends
RECURSIVE AppendedTo(_, _)
AppendedTo(k, i) ==
    IF i = 0 THEN <<>>
    ELSE AppendedTo(k, i - 1) \o (IF log[i].key = k THEN <<log[i].pt>> ELSE <<>>)

\* C2: the history stored for each key is the last min(n, C) points appended
\* to that key, in insertion order (n appends to the key, C the cap): its
\* length never exceeds C and no key holds another key's points.
C2_BufferIsBoundedFifo ==
    /\ DOMAIN buffers = {log[i].key : i \in 1..Len(log)}
    /\ \A k \in DOMAIN buffers :
        LET appended == AppendedTo(k, Len(log))
            n == Len(appended)
            kept == Min(n, default_history_len)
        IN  /\ Len(buffers[k]) = kept
            /\ Len(buffers[k]) <= default_history_len
            /\ \A j \in 1..kept : buffers[k][j] = appended[n - kept + j]

\* C2 witness: a key that has had more appends than the cap, next to another
\* key with fewer
C2_Witness ==
    \E k1, k2 \in DOMAIN buffers :
        /\ Len(AppendedTo(k1, Len(log))) > default_history_len
        /\ Len(buffers[k1]) = default_history_len
        /\ Len(AppendedTo(k2, Len(log))) \in 1..(default_history_len - 1)

\* C10: in both grammars, two blocks for the same game (same date, time and
\* team tokens) that differ only in their odds get the same game_id, so the
\* observations of one market of one game all go to one buffer key.
C10_StableGameId ==
    \A i, j \in 1..Len(log) :
        (/\ log[i].game = log[j].game
         /\ log[i].grammar = log[j].grammar
         /\ log[i].market = log[j].market) => log[i].key = log[j].key

-----------------------------------------------------------------------------
(* Config (src/config/settings.py) *)

strong_confidence_threshold == Rat(80, 100)
min_confidence_for_action == Rat(55, 100)
kelly_fraction_cap == Rat(20, 100)

-----------------------------------------------------------------------------
(* RecommendationEngine.generate_recommendation                            *)
(*                                                                         *)
(* ta_indicators has one Optional entry per market the engine reads; None  *)
(* is a key that is absent or maps to an empty dict.  An indicator set     *)
(* holds Optional 'momentum' ([MOM_V |-> Optional number]) and Optional    *)
(* 'steam_detection' ([steam |-> BOOLEAN, confidence |-> number]).         *)
(* forecasts maps each market to an Optional                               *)
(* [projected_point_move |-> Optional number, confidence |-> number].      *)

\* np.sign(x) * min(cap, abs(x) * k)
SignedCapped(x, cap, k) ==
    LET m == RMul([n |-> Abs(x.n), d |-> x.d], Rat(k, 1))
        c == IF RLe(cap, m) THEN cap ELSE m
    IN  RMul(Rat(Sign(x.n), 1), c)

\* lines 17-25: the spread momentum term; <<>> when nothing is added
SpreadMomentum(ti) ==
    IF IsNone(ti.spread) THEN None
    ELSE LET mom == Val(ti.spread).momentum
             mom_v == IF ~IsNone(mom) THEN Val(mom).MOM_V ELSE Some(Zero)
         IN  IF IsNone(mom_v) THEN None
             ELSE Some(SignedCapped(Val(mom_v), Rat(5, 10), 100))

\* lines 27-31: the steam term
SpreadSteam(ti) ==
    IF IsNone(ti.spread) THEN None
    ELSE LET steam == Val(ti.spread).steam_detection
         IN  IF ~IsNone(steam) /\ Val(steam).steam
             THEN Some(RMul(Rat(3, 10), Val(steam).confidence))
             ELSE None

\* faulty variant of MoneylineMomentum: `if momv > 0` for `if momv`
MoneylineMomentum_RisingOnly(t) ==
    IF IsNone(t) THEN None
    ELSE LET momv == IF ~IsNone(Val(t).momentum) THEN Val(Val(t).momentum).MOM_V
                     ELSE Some(Zero)
         IN  IF IsNone(momv) \/ ~RLt(Zero, Val(momv)) THEN None
             ELSE Some(SignedCapped(Val(momv), Rat(4, 10), 120))

\* lines 34-40: the moneyline momentum term of one side
MoneylineMomentum(t) ==
    IF IsNone(t) THEN None
    ELSE LET momv == IF ~IsNone(Val(t).momentum) THEN Val(Val(t).momentum).MOM_V
                     ELSE Some(Zero)
         IN  IF IsNone(momv) \/ Val(momv) = Zero THEN None
             ELSE Some(SignedCapped(Val(momv), Rat(4, 10), 120))

\* lines 43-50: the term of one forecast
ForecastTerm(f) ==
    IF IsNone(f) THEN None
    ELSE LET pm == Val(f).projected_point_move
             conf == Val(f).confidence
         IN  IF /\ ~IsNone(pm)
                /\ Val(pm) # Zero
                /\ RLt(Rat(3, 10), [n |-> Abs(Val(pm).n), d |-> Val(pm).d])
                /\ RLt(Rat(6, 10), conf)
             THEN Some(RMul(Rat(2, 10), Rat(Sign(Val(pm).n), 1)))
             ELSE None

OrZero(o) == IF IsNone(o) THEN Zero ELSE Val(o)

\* lines 12-50: score
Score(ti, fc) ==
    RAdd(RAdd(RAdd(OrZero(SpreadMomentum(ti)), OrZero(SpreadSteam(ti))),
              RAdd(OrZero(MoneylineMomentum(ti.away_ml)),
                   OrZero(MoneylineMomentum(ti.home_ml)))),
         RAdd(OrZero(ForecastTerm(fc.spread)), OrZero(ForecastTerm(fc.total))))

\* faulty variant of Confidence: the upper clamp is lost
Confidence_NoUpperClamp(score) ==
    LET c == RAdd(Rat(5, 10), score)
    IN  IF RLt(c, Rat(5, 100)) THEN Rat(5, 100) ELSE c

\* lines 53-57: confidence
Confidence(score) ==
    LET c == RAdd(Rat(5, 10), score)
        hi == IF RLt(Rat(95, 100), c) THEN Rat(95, 100) ELSE c
    IN  IF RLt(hi, Rat(5, 100)) THEN Rat(5, 100) ELSE hi

\* faulty variant of Action: the Back threshold is exclusive
Action_StrictBack(confidence) ==
    IF RLt(strong_confidence_threshold, confidence) THEN "Back"
    ELSE IF RLe(confidence, RSub(min_confidence_for_action, Rat(1, 10))) THEN "Fade"
    ELSE "Hold"

\* lines 60-65: action
Action(confidence) ==
    IF RLe(strong_confidence_threshold, confidence) THEN "Back"
    ELSE IF RLe(confidence, RSub(min_confidence_for_action, Rat(1, 10))) THEN "Fade"
    ELSE "Hold"

\* line 68: ev
ExpectedValue(confidence) == RMul(RSub(confidence, Rat(5, 10)), Rat(12, 100))

\* faulty variant of Kelly: the max(0.0, ...) floor is lost
Kelly_NoFloor(ev) ==
    LET q == RDiv(ev, Rat(5, 100))
    IN  IF RLe(kelly_fraction_cap, q) THEN kelly_fraction_cap ELSE q

\* line 69: kelly
Kelly(ev) ==
    LET q == RDiv(ev, Rat(5, 100))
        lo == IF RLe(kelly_fraction_cap, q) THEN kelly_fraction_cap ELSE q
    IN  IF RLe(lo, Zero) THEN Zero ELSE lo

\* the tags appended to 'triggered', in order
Triggered(ti) ==
    (IF IsNone(SpreadMomentum(ti)) THEN <<>> ELSE <<"spread_momentum">>)
    \o (IF IsNone(SpreadSteam(ti)) THEN <<>> ELSE <<"steam">>)
    \o (IF IsNone(MoneylineMomentum(ti.away_ml)) THEN <<>> ELSE <<"away_ml_momentum">>)
    \o (IF IsNone(MoneylineMomentum(ti.home_ml)) THEN <<>> ELSE <<"home_ml_momentum">>)

\* generate_recommendation(game_row, ta_indicators, forecasts)
generate_recommendation(ti, fc) ==
    LET confidence == Confidence(Score(ti, fc))
        ev == ExpectedValue(confidence)
    IN  [action |-> Action(confidence),
         confidence |-> confidence,
         expected_value |-> ev,
         kelly_stake |-> Kelly(ev),
         triggered_indicators |-> Triggered(ti),
         indicator_summary |-> ti]

-----------------------------------------------------------------------------
(* One recommendation from any indicator sets and forecasts (SpecRec) *)

\* MOM_V values: unavailable, zero, and both signs at magnitudes below, at
\* and above the caps of the momentum terms
MomValues ==
    {None} \cup {Some(Rat(n, 10000)) : n \in {0, 5, -5, 30, -30, 100, -100, 50000, -50000}}
Momenta == {None} \cup {Some([MOM_V |-> v]) : v \in MomValues}
Steams ==
    {None, Some([steam |-> FALSE, confidence |-> Rat(1, 3)]),
     Some([steam |-> TRUE, confidence |-> Rat(1, 2)]),
     Some([steam |-> TRUE, confidence |-> One])}
SpreadSets ==
    {None} \cup {Some([momentum |-> m, steam_detection |-> st]) : m \in Momenta, st \in Steams}
MoneylineSets ==
    {None} \cup {Some([momentum |-> Some([MOM_V |-> v]), steam_detection |-> None]) :
                    v \in {None, Some(Zero), Some(Rat(1, 1000)), Some(Rat(-1, 1000)),
                           Some(Rat(-5, 1))}}
ForecastSet ==
    {None,
     Some([projected_point_move |-> None, confidence |-> Rat(9, 10)]),
     Some([projected_point_move |-> Some(Rat(3, 10)), confidence |-> Rat(9, 10)]),
     Some([projected_point_move |-> Some(Rat(1, 2)), confidence |-> Rat(6, 10)]),
     Some([projected_point_move |-> Some(Rat(1, 2)), confidence |-> Rat(7, 10)]),
     Some([projected_point_move |-> Some(Rat(-4, 1)), confidence |-> One])}

RecIdle ==
    /\ ta_indicators = [spread |-> None, away_ml |-> None, home_ml |-> None]
    /\ forecasts = [spread |-> None, total |-> None]
    /\ rec = None

RecInit ==
    /\ ta_indicators \in [spread : SpreadSets, away_ml : MoneylineSets, home_ml : MoneylineSets]
    /\ forecasts \in [spread : ForecastSet, total : ForecastSet]
    /\ rec = None

GenerateRecommendation ==
    /\ rec = None
    /\ rec' = Some(generate_recommendation(ta_indicators, forecasts))
    /\ UNCHANGED <<ta_indicators, forecasts, oddsVars, taVars, rowVars, bufVars, feedVars>>

RecNext == GenerateRecommendation

\* C5: every record generate_recommendation returns has action in
\* {Back, Fade, Hold}, confidence in [0.05, 0.95] and kelly_stake in
\* [0, kelly_fraction_cap].
C5_RecommendationRanges ==
    ~IsNone(rec) =>
        /\ Val(rec).action \in {"Back", "Fade", "Hold"}
        /\ RLe(Rat(5, 100), Val(rec).confidence)
        /\ RLe(Val(rec).confidence, Rat(95, 100))
        /\ RLe(Zero, Val(rec).kelly_stake)
        /\ RLe(Val(rec).kelly_stake, kelly_fraction_cap)

\* C5 witness: a record whose unclamped confidence 0.5 + score lies above
\* 0.95 or below 0.05, built from several signals at once
C5_Witness ==
    /\ ~IsNone(rec)
    /\ Len(Val(rec).triggered_indicators) >= 3
    /\ LET c == RAdd(Rat(5, 10), Score(ta_indicators, forecasts))
       IN  RLt(c, Rat(5, 100)) \/ RLt(Rat(95, 100), c)

OnlySpreadMomentum(v) ==
    /\ ta_indicators.spread =
           Some([momentum |-> Some([MOM_V |-> Some(v)]), steam_detection |-> None])
    /\ ta_indicators.away_ml = None
    /\ ta_indicators.home_ml = None
    /\ forecasts = [spread |-> None, total |-> None]

\* C6: the action follows from confidence alone (Back iff confidence >= 0.80,
\* Fade iff confidence <= 0.45, Hold otherwise), and a spread MOM_V of 0.01
\* with no other signal gives score 0.5, confidence 0.95 and action Back.
C6_ActionFromConfidence ==
    ~IsNone(rec) =>
        /\ Val(rec).action = "Back" <=> RLe(Rat(80, 100), Val(rec).confidence)
        /\ Val(rec).action = "Fade" <=> RLe(Val(rec).confidence, Rat(45, 100))
        /\ Val(rec).action = "Hold" <=>
               (RLt(Rat(45, 100), Val(rec).confidence)
                    /\ RLt(Val(rec).confidence, Rat(80, 100)))
        /\ OnlySpreadMomentum(Rat(1, 100)) =>
               /\ Score(ta_indicators, forecasts) = Rat(1, 2)
               /\ Val(rec).confidence = Rat(95, 100)
               /\ Val(rec).action = "Back"

\* C6 witness: the recommendation for a spread MOM_V of 0.01 and nothing else
C6_Witness == ~IsNone(rec) /\ OnlySpreadMomentum(Rat(1, 100))

\* C13: in every record returned the stake follows the sign of the edge:
\* kelly_stake > 0 exactly when confidence > 0.5, a Fade carries
\* expected_value < 0 and kelly_stake = 0, and a Back carries kelly_stake
\* equal to kelly_fraction_cap.
C13_StakeFollowsEdge ==
    ~IsNone(rec) =>
        /\ RLt(Zero, Val(rec).kelly_stake) <=> RLt(Rat(1, 2), Val(rec).confidence)
        /\ Val(rec).action = "Fade" =>
               /\ RLt(Val(rec).expected_value, Zero)
               /\ Val(rec).kelly_stake = Zero
        /\ Val(rec).action = "Back" =>
               Val(rec).kelly_stake = kelly_fraction_cap

\* C13 witness: a Fade built from a negative spread momentum, with a negative
\* expected value and no stake
C13_Witness ==
    /\ ~IsNone(rec)
    /\ Val(rec).action = "Fade"
    /\ "spread_momentum" \in {Val(rec).triggered_indicators[i] :
                                i \in 1..Len(Val(rec).triggered_indicators)}
    /\ RLt(Val(rec).expected_value, Zero)
    /\ Val(rec).kelly_stake = Zero

-----------------------------------------------------------------------------
(* Indicator engine (src/parser/ta/ta_engine.py)                           *)
(*                                                                         *)
(* A standard deviation is the root of a rational: the value s * sqrt(q)   *)
(* is the record [sign |-> s, sq |-> q], s in {-1, 0, 1}.                  *)

rsi_period == 14
zscore_lookback == 20
bollinger_lookback == 20
atr_lookback == 14
momentum_period == 3
sma_period == 10
base_period == 10
max_period == 30
sensitivity == 2

RECURSIVE SumTo(_, _)
SumTo(seq, i) == IF i = 0 THEN Zero ELSE RAdd(SumTo(seq, i - 1), seq[i])
Sum(seq) == SumTo(seq, Len(seq))
\* np.mean of a non-empty sequence
Mean(seq) == RDiv(Sum(seq), Rat(Len(seq), 1))
\* np.std(seq) ** 2, the population variance
SqDev(x, mu) == LET dv == RSub(x, mu) IN RMul(dv, dv)
MeanSqDev(seq, mu) == Mean([i \in 1..Len(seq) |-> SqDev(seq[i], mu)])
Variance(seq) == MeanSqDev(seq, Mean(seq))
Root(s, q) == [sign |-> IF q = Zero THEN 0 ELSE s, sq |-> q]
\* np.std
Std(seq) == Root(1, Variance(seq))
\* np.diff
Diff(seq) == [i \in 1..(Len(seq) - 1) |-> RSub(seq[i + 1], seq[i])]
RAbs(x) == [n |-> Abs(x.n), d |-> x.d]

\* momentum_from_ips(values, period)
momentum_from_ips(values, period) ==
    LET n == Len(values) IN
    IF n < period + 1 THEN [MOM_V |-> None, MOM_A |-> None]
    ELSE LET mom_v == RDiv(RSub(values[n], values[n - period]), Rat(period, 1))
             mom_a ==
                 IF n >= 2 * period + 1
                 THEN LET prev_v == RDiv(RSub(values[n - period], values[n - 2 * period]),
                                         Rat(period, 1))
                      IN  Some(RDiv(RSub(mom_v, prev_v), Rat(period, 1)))
                 ELSE None
         IN  [MOM_V |-> Some(mom_v), MOM_A |-> mom_a]

\* faulty variant of rsi_from_ips: any two samples are enough
rsi_from_ips_NoMinimum(values, period) ==
    IF Len(values) < 2 THEN None
    ELSE LET deltas == Diff(values)
             gains == [i \in 1..Len(deltas) |-> IF deltas[i].n > 0 THEN deltas[i] ELSE Zero]
             losses == [i \in 1..Len(deltas) |->
                           IF deltas[i].n < 0 THEN RSub(Zero, deltas[i]) ELSE Zero]
             avg_gain == Mean(Last(gains, period))
             avg_loss == Mean(Last(losses, period))
         IN  IF avg_loss = Zero THEN Some(Rat(100, 1))
             ELSE Some(RSub(Rat(100, 1),
                            RDiv(Rat(100, 1), RAdd(One, RDiv(avg_gain, avg_loss)))))

\* rsi_from_ips(values, period)
rsi_from_ips(values, period) ==
    IF Len(values) < period + 1 THEN None
    ELSE LET deltas == Diff(values)
             gains == [i \in 1..Len(deltas) |-> IF deltas[i].n > 0 THEN deltas[i] ELSE Zero]
             losses == [i \in 1..Len(deltas) |->
                           IF deltas[i].n < 0 THEN RSub(Zero, deltas[i]) ELSE Zero]
             avg_gain == Mean(Last(gains, period))
             avg_loss == Mean(Last(losses, period))
         IN  IF avg_loss = Zero THEN Some(Rat(100, 1))
             ELSE Some(RSub(Rat(100, 1),
                            RDiv(Rat(100, 1), RAdd(One, RDiv(avg_gain, avg_loss)))))

\* z_score(values, lookback): (last - mu) / sd as a signed root
z_score(values, lookback) ==
    IF Len(values) < lookback THEN None
    ELSE LET w == Last(values, lookback)
             mu == Mean(w)
             var == Variance(w)
             dev == RSub(values[Len(values)], mu)
         IN  IF var = Zero THEN Some(Root(0, Zero))
             ELSE Some(Root(Sign(dev.n), RDiv(RMul(dev, dev), var)))

\* sma(values, period)
sma(values, period) ==
    IF Len(values) < 1 THEN None ELSE Some(Mean(Last(values, period)))

\* int((max_period - base_period) * eff * sensitivity), capped at
\* max_period - base_period, for eff = direction / (sqrt(var) * sqrt(base_period))
EffSteps(direction, var) ==
    LET scale == (max_period - base_period) * sensitivity
        lhs(k) == RMul(Rat(k * k * base_period, 1), var)
        rhs == RMul(Rat(scale * scale, 1), RMul(direction, direction))
    IN  CHOOSE k \in 0..(max_period - base_period) :
            /\ RLe(lhs(k), rhs)
            /\ (k < max_period - base_period => ~RLe(lhs(k + 1), rhs))

\* adaptive_ma(values) with the default base_period, max_period, sensitivity
adaptive_ma(values) ==
    IF Len(values) = 0 THEN None
    ELSE IF Len(values) < base_period THEN Some(Mean(values))
    ELSE LET var == Variance(Last(values, base_period))
             direction == RAbs(RSub(values[Len(values)],
                                    values[Len(values) - base_period + 1]))
             steps == IF var = Zero THEN 0 ELSE EffSteps(direction, var)
             adaptive_period == Max(base_period, Min(max_period, base_period + steps))
         IN  Some(Mean(Last(values, adaptive_period)))

\* bollinger_width(values, lookback): (mu + 2 sd) - (mu - 2 sd)
bollinger_width(values, lookback) ==
    IF Len(values) < lookback THEN None
    ELSE Some(Root(1, RMul(Rat(16, 1), Variance(Last(values, lookback)))))

\* atr_on_points(points, lookback)
atr_on_points(points, lookback) ==
    IF Len(points) < 2 THEN None
    ELSE LET d == Diff(points)
             tr == [i \in 1..Len(d) |-> RAbs(d[i])]
         IN  IF Len(tr) < lookback THEN Some(Mean(tr)) ELSE Some(Mean(Last(tr, lookback)))

\* implied_volatility_simple(values_ip)
implied_volatility_simple(values_ip) ==
    IF Len(values_ip) < 2 THEN None ELSE Some(Std(Diff(values_ip)))

\* detect_steam_movement_advanced(values_ip, values_points) without splits
detect_steam_movement_advanced(values_ip) ==
    IF Len(values_ip) < 6 THEN [steam |-> FALSE, confidence |-> Zero, signals |-> <<>>]
    ELSE LET z == z_score(values_ip, 20)
             zs == IF IsNone(z) THEN Root(0, Zero) ELSE Val(z)
             mv == momentum_from_ips(values_ip, 3).MOM_V
             mom_v == IF IsNone(mv) THEN Zero ELSE Val(mv)
             vol == Std(Last(values_ip, 10))
             sig_z == RLt(Rat(4, 1), zs.sq)
             sig_m == RLt(Rat(5, 10000), RAbs(mom_v))
             sig_v == RLt(Rat(4, 10000), vol.sq)
             score == RAdd(RAdd(IF sig_z THEN One ELSE Zero, IF sig_m THEN One ELSE Zero),
                           IF sig_v THEN Rat(1, 2) ELSE Zero)
             q == RDiv(score, Rat(3, 1))
             confidence == IF RLe(One, q) THEN One ELSE q
         IN  [steam |-> RLt(Rat(4, 10), confidence),
              confidence |-> confidence,
              signals |-> (IF sig_z THEN <<"zscore">> ELSE <<>>)
                          \o (IF sig_m THEN <<"momentum">> ELSE <<>>)
                          \o (IF sig_v THEN <<"volatility">> ELSE <<>>)]

\* the values of one field that are not None, in order
RECURSIVE FieldValues(_, _)
FieldValues(series, field) ==
    IF Len(series) = 0 THEN <<>>
    ELSE FieldValues(SubSeq(series, 1, Len(series) - 1), field)
         \o (IF IsNone(series[Len(series)][field]) THEN <<>>
             ELSE <<Val(series[Len(series)][field])>>)

\* calculate_all_ta_indicators(series_data): None is the empty dict.  The
\* ema, Fibonacci and Greeks entries are left out.
calculate_all_ta_indicators(series) ==
    LET values_ip == FieldValues(series, "ip")
        values_points == FieldValues(series, "point")
    IN  IF Len(values_ip) = 0 THEN None
        ELSE Some([current_ip |-> values_ip[Len(values_ip)],
                   data_points |-> Len(values_ip),
                   momentum |-> Some(momentum_from_ips(values_ip, momentum_period)),
                   rsi |-> rsi_from_ips(values_ip, rsi_period),
                   z_score |-> z_score(values_ip, zscore_lookback),
                   sma |-> sma(values_ip, sma_period),
                   adaptive_ma |-> adaptive_ma(values_ip),
                   bollinger_width |-> bollinger_width(values_ip, bollinger_lookback),
                   atr |-> IF Len(values_points) > 0
                           THEN atr_on_points(values_points, atr_lookback) ELSE None,
                   steam_detection |-> Some(detect_steam_movement_advanced(values_ip)),
                   implied_volatility |-> implied_volatility_simple(values_ip)])

-----------------------------------------------------------------------------
(* A series observed point by point, its indicators recomputed (SpecTA) *)

MaxSeries == 21
MaxChanges == 1

\* MaxSeries bounds the length of the series, MaxChanges the number of places
\* where two successive observations differ.
\* the observations a market's buffer holds: an implied probability and an
\* Optional point value
SeriesPoints ==
    {[ip |-> Some(Rat(1, 2)), point |-> None],
     [ip |-> Some(Rat(1, 2)), point |-> Some(Rat(-7, 2))],
     [ip |-> Some(Rat(3, 5)), point |-> Some(Rat(-3, 1))]}

Changes(series) == Cardinality({i \in 1..(Len(series) - 1) : series[i] # series[i + 1]})

TAIdle ==
    /\ series_data = <<>>
    /\ ta = None

TAInit == TAIdle

\* one more observation, then calculate_all_ta_indicators over the series
Observe(p) ==
    /\ Len(series_data) < MaxSeries
    /\ Changes(Append(series_data, p)) <= MaxChanges
    /\ series_data' = Append(series_data, p)
    /\ ta' = calculate_all_ta_indicators(series_data')
    /\ UNCHANGED <<oddsVars, recVars, rowVars, bufVars, feedVars>>

TANext == \E p \in SeriesPoints : Observe(p)

NumIps == Len(FieldValues(series_data, "ip"))
NumPoints == Len(FieldValues(series_data, "point"))

\* C7 as stated: every indicator, given fewer samples than its stated minimum
\* (MOM_V 4, RSI 15, z-score 20, Bollinger width 20, adaptive MA 10, ATR 2
\* points, implied volatility 2), is None.
C7_BelowMinimumIsNone ==
    ~IsNone(ta) =>
        /\ NumIps < 4 => IsNone(Val(Val(ta).momentum).MOM_V)
        /\ NumIps < 15 => IsNone(Val(ta).rsi)
        /\ NumIps < 20 => IsNone(Val(ta).z_score)
        /\ NumIps < 20 => IsNone(Val(ta).bollinger_width)
        /\ NumIps < 10 => IsNone(Val(ta).adaptive_ma)
        /\ NumPoints < 2 => IsNone(Val(ta).atr)
        /\ NumIps < 2 => IsNone(Val(ta).implied_volatility)

\* C7 amended: as C7 for MOM_V, RSI, z-score, Bollinger width, ATR and implied
\* volatility; the adaptive MA is None only for an empty series, and for 1 to
\* 9 samples it is the plain mean of all the samples.
C7_BelowMinimumExceptAdaptiveMA ==
    /\ adaptive_ma(<<>>) = None
    /\ ~IsNone(ta) =>
        /\ NumIps < 4 => IsNone(Val(Val(ta).momentum).MOM_V)
        /\ NumIps < 15 => IsNone(Val(ta).rsi)
        /\ NumIps < 20 => IsNone(Val(ta).z_score)
        /\ NumIps < 20 => IsNone(Val(ta).bollinger_width)
        /\ NumIps < 10 =>
               Val(ta).adaptive_ma = Some(Mean(FieldValues(series_data, "ip")))
        /\ NumPoints < 2 => IsNone(Val(ta).atr)
        /\ NumIps < 2 => IsNone(Val(ta).implied_volatility)

\* C7 witness: nine samples of two different values, one of them the only
\* point value: the adaptive MA is a number and every other indicator but
\* MOM_V and implied volatility is below its minimum
C7_Witness ==
    /\ ~IsNone(ta)
    /\ NumIps = 9
    /\ NumPoints = 1
    /\ Changes(series_data) = 1
    /\ ~IsNone(Val(ta).adaptive_ma)
    /\ IsNone(Val(ta).rsi)
    /\ IsNone(Val(ta).atr)

-----------------------------------------------------------------------------
(* One game quoted again and again in the 5-line grammar with both         *)
(* moneylines present: each parse pushes the row to the buffers, then the   *)
(* indicators of each market are computed from its buffer and a             *)
(* recommendation is generated (SpecMoneyline).                             *)

MaxParses == 6

\* moneyline lines with both sides present: a pick'em, a small move away from
\* it (momentum term below its cap) and a large one (term at its cap)
MoneylinePairs ==
    {[away_txt |-> "-110", home_txt |-> "-110", away |-> -110, home |-> -110],
     [away_txt |-> "+100", home_txt |-> "-104", away |-> 100, home |-> -104],
     [away_txt |-> "+100", home_txt |-> "-300", away |-> 100, home |-> -300]}
MoneylineQuotes == {[FirstQuote5 EXCEPT !.ml = m] : m \in MoneylinePairs}

\* app.py lines 76-82: the indicators of each market of game gid, from its
\* buffer; None where the buffer is missing or empty
IndicatorsOf(bufs, gid) ==
    [market \in {Markets[i] : i \in 1..Len(Markets)} |->
        IF BufferKey(gid, market) \in DOMAIN bufs
        THEN calculate_all_ta_indicators(
                 [i \in 1..Len(bufs[BufferKey(gid, market)]) |->
                     [ip |-> bufs[BufferKey(gid, market)][i].ip,
                      point |-> bufs[BufferKey(gid, market)][i].point]])
        ELSE None]

MoneylineInit == BufIdle /\ RowIdle /\ RecIdle

\* Parse Feed on a feed of one 5-line block, with 'Auto TA+Rec after parse'
ParseAndRecommend(q) ==
    /\ clock < MaxParses
    /\ quote' = q
    /\ mapped' = TRUE
    /\ clock' = clock + 1
    /\ \E r \in {_parse_5line(Block5(q))} :
        /\ row' = r
        /\ log' = log \o LogMarkets(Val(r), q, clock + 1, Len(Markets))
        /\ \E bufs \in {push_row(buffers, Val(r), clock + 1)} :
            /\ buffers' = bufs
            /\ \E ti \in {IndicatorsOf(bufs, Val(r).game_id)} :
                /\ ta_indicators' = ti
                /\ forecasts' = [spread |-> None, total |-> None]
                /\ rec' = Some(generate_recommendation(ti, forecasts'))
    /\ UNCHANGED <<oddsVars, taVars, feedVars>>

MoneylineNext == \E q \in MoneylineQuotes : ParseAndRecommend(q)

\* the implied probabilities a buffer holds, in order
IpsOf(key) ==
    IF key \in DOMAIN buffers THEN [i \in 1..Len(buffers[key]) |-> Val(buffers[key][i].ip)]
    ELSE <<>>
AwayIps == IpsOf(BufferKey(Val(row).game_id, "away_ml"))
HomeIps == IpsOf(BufferKey(Val(row).game_id, "home_ml"))

\* C14: when the away_ml and home_ml series of a game are filled by the same
\* parses with both moneylines present (each pushed pair sums to 1), the home
\* MOM_V is the negation of the away MOM_V, the two moneyline momentum terms
\* cancel, and the score and confidence are those of the same indicators
\* without the moneyline sides.
C14_MoneylineMomentaCancel ==
    (~IsNone(rec) /\ ~IsNone(row)
        /\ Len(AwayIps) > 0 /\ Len(AwayIps) = Len(HomeIps)
        /\ \A i \in 1..Len(AwayIps) : RAdd(AwayIps[i], HomeIps[i]) = One) =>
        LET away == momentum_from_ips(AwayIps, momentum_period).MOM_V
            home == momentum_from_ips(HomeIps, momentum_period).MOM_V
            rest == [ta_indicators EXCEPT !.away_ml = None, !.home_ml = None]
        IN  /\ Val(Val(ta_indicators.away_ml).momentum).MOM_V = away
            /\ Val(Val(ta_indicators.home_ml).momentum).MOM_V = home
            /\ IsNone(away) <=> IsNone(home)
            /\ ~IsNone(away) => Val(home) = RSub(Zero, Val(away))
            /\ RAdd(OrZero(MoneylineMomentum(ta_indicators.away_ml)),
                    OrZero(MoneylineMomentum(ta_indicators.home_ml))) = Zero
            /\ Score(ta_indicators, forecasts) = Score(rest, forecasts)
            /\ Val(rec).confidence = Confidence(Score(rest, forecasts))

\* C14 witness: after the buffers have been trimmed, an away MOM_V that is
\* positive and small enough for its term to stay below the 0.4 cap, with
\* both sides' terms triggered
C14_Witness ==
    /\ ~IsNone(rec) /\ ~IsNone(row)
    /\ clock > default_history_len
    /\ Len(AwayIps) = default_history_len
    /\ Len(HomeIps) = default_history_len
    /\ LET away == momentum_from_ips(AwayIps, momentum_period).MOM_V
       IN  /\ ~IsNone(away)
           /\ RLt(Zero, Val(away))
           /\ RLt(RMul(Val(away), Rat(120, 1)), Rat(4, 10))
    /\ {"away_ml_momentum", "home_ml_momentum"} \subseteq
           {Val(rec).triggered_indicators[i] : i \in 1..Len(Val(rec).triggered_indicators)}

-----------------------------------------------------------------------------
(* Specifications *)

InitOdds == OddsInit /\ RecIdle /\ TAIdle /\ RowIdle /\ BufIdle /\ FeedIdle
SpecOdds == InitOdds /\ [][OddsNext]_vars

InitRec == RecInit /\ OddsIdle /\ TAIdle /\ RowIdle /\ BufIdle /\ FeedIdle
SpecRec == InitRec /\ [][RecNext]_vars

InitTA == TAInit /\ OddsIdle /\ RecIdle /\ RowIdle /\ BufIdle /\ FeedIdle
SpecTA == InitTA /\ [][TANext]_vars

InitSeries == SeriesInit /\ OddsIdle /\ RecIdle /\ TAIdle /\ FeedIdle
SpecSeries == InitSeries /\ [][SeriesNext]_vars

InitFeed == FeedInit /\ OddsIdle /\ RecIdle /\ TAIdle /\ RowIdle /\ BufIdle
SpecFeed == InitFeed /\ [][FeedNext]_vars

InitGrammar == GrammarInit /\ OddsIdle /\ RecIdle /\ TAIdle /\ BufIdle /\ FeedIdle
SpecGrammar == InitGrammar /\ [][GrammarNext]_vars

InitMoneyline == MoneylineInit /\ OddsIdle /\ TAIdle /\ FeedIdle
SpecMoneyline == InitMoneyline /\ [][MoneylineNext]_vars

====
